---- MODULE Spec2Model ----
(***************************************************************************)
(* Model of the "simple" AHRS estimator of src/ahrs/ahrs_simple.go:        *)
(* InitializeSimple, init, Compute, Predict, Update and the accessors.     *)
(*                                                                         *)
(* Every float64 of the program is a fixed-point integer here:             *)
(*   - angles, quaternion components, velocities, groundspeed and turn     *)
(*     rate are in thousandths (Milli) of the program's unit;              *)
(*   - time is in ticks of half a microsecond (TicksPerSec ticks a second),*)
(*     so that a positive interval below MinDT (1e-6 s) exists.            *)
(* Division truncates toward zero, which keeps the arithmetic symmetric in *)
(* sign and an exact zero exact, as float64 arithmetic does.               *)
(* The covariance matrices M and N of the embedded State are allocated by  *)
(* InitializeSimple and never read or written again; they are not modelled.*)
(***************************************************************************)
EXTENDS Integers, Sequences, FiniteSets, TLC

\* ------------------------------------------------------------------ units

\* Resolution of every fixed-point quantity (1/1000 of the program's unit).
Milli == 1000

\* Resolution of the time stamps: ticks per second.
TicksPerSec == 2000000

\* Ticks per millisecond, used when an interval multiplies an angular rate.
TicksPerMs == TicksPerSec \div 1000

\* ------------------------------------------------- constants of the source

\* MinDT = 1e-6 s, in ticks.
MinDT == 2

\* MaxDT = 10 s, in ticks.
MaxDT == 20000000

\* MinGS = 10 kt, in milli-knots.
MinGS == 10000

\* K = 0.9 as the fraction KNum / KDen.
KNum == 9

KDen == 10

\* Pi, in milliradians (an even number, so that Pi/2 is exact).
Pi == 3142

\* Deg = Pi/180, in microradians per degree.
Deg == 17453

\* G = 32.1740/1.687810 kt/s, in milli-(kt/s).
G == 19063

\* ---------------------------------------------------- float64 arithmetic

Abs(x) == IF x < 0 THEN -x ELSE x

Sgn(x) == IF x < 0 THEN -1 ELSE IF x > 0 THEN 1 ELSE 0

\* a / b, truncated toward zero (b # 0).
Div(a, b) ==
  IF a >= 0
  THEN (IF b > 0 THEN a \div b ELSE -(a \div (-b)))
  ELSE (IF b > 0 THEN -((-a) \div b) ELSE (-a) \div (-b))

\* a * b / c without the intermediate product leaving the machine range:
\* the quotient and the remainder of a by c are scaled separately.
MulDiv(a, b, c) ==
  LET q == Div(a, c)
      r == a - q * c
  IN  q * b + Div(r * b, c)

\* The product of two fixed-point numbers.
Mul(a, b) == Div(a * b, Milli)

RECURSIVE SqrtIter(_, _)
SqrtIter(n, x) ==
  LET y == (x + n \div x) \div 2
  IN  IF y >= x THEN x ELSE SqrtIter(n, y)

\* The integer square root of n >= 0 (Newton's iteration from above; 46341 is
\* above the root of every machine integer).
Isqrt(n) == IF n < 2 THEN n ELSE SqrtIter(n, IF n < 46341 THEN n ELSE 46341)

\* math.Hypot of two fixed-point numbers.
Hypot(a, b) == Isqrt(a * a + b * b)

\* sin of x in [0, Pi] (Bhaskara's rational approximation: exact at 0, Pi/2, Pi).
SinHalfTurn(x) ==
  LET p == x * (Pi - x)
  IN  Div(16 * p, Div(5 * Pi * Pi - 4 * p, Milli))

RECURSIVE Sin(_)
\* math.Sin of an angle in milliradians.
Sin(x) ==
  IF x < 0 THEN -Sin(-x)
  ELSE IF x > Pi THEN -Sin(x - Pi)
  ELSE SinHalfTurn(x)

\* math.Cos of an angle in milliradians.
Cos(x) == Sin(x + Pi \div 2)

\* atan of t in [0, Milli] (t = tan of the angle, at most 1).
AtanUnit(t) == Div(t * (785 + Div(273 * (Milli - t), Milli)), Milli)

\* math.Atan of a fixed-point number.
Atan(x) ==
  IF Abs(x) <= Milli THEN Sgn(x) * AtanUnit(Abs(x))
  ELSE Sgn(x) * (Pi \div 2 - AtanUnit(Div(Milli * Milli, Abs(x))))

\* math.Atan2(y, x) of two fixed-point numbers, in (-Pi, Pi].
Atan2(y, x) ==
  IF x = 0 THEN Sgn(y) * (Pi \div 2)
  ELSE IF y = 0 THEN (IF x > 0 THEN 0 ELSE Pi)
  ELSE LET a == IF Abs(y) <= Abs(x)
                THEN AtanUnit(Div(Abs(y) * Milli, Abs(x)))
                ELSE Pi \div 2 - AtanUnit(Div(Abs(x) * Milli, Abs(y)))
       IN  IF x > 0 THEN Sgn(y) * a ELSE Sgn(y) * (Pi - a)

\* ------------------------------------------- helpers of package ahrs

\* An angle wrapped into (-Pi, Pi].
RECURSIVE Wrap(_)
Wrap(x) ==
  IF x > Pi THEN Wrap(x - 2 * Pi)
  ELSE IF x <= -Pi THEN Wrap(x + 2 * Pi)
  ELSE x

\* Regularize(roll, pitch, heading): roll and heading wrapped into (-Pi, Pi],
\* pitch folded into [-Pi/2, Pi/2].
Regularize(roll, pitch, heading) ==
  LET p == Wrap(pitch)
  IN  IF p > Pi \div 2 THEN <<Wrap(roll + Pi), Pi - p, Wrap(heading + Pi)>>
      ELSE IF p < -(Pi \div 2) THEN <<Wrap(roll + Pi), -Pi - p, Wrap(heading + Pi)>>
      ELSE <<Wrap(roll), p, Wrap(heading)>>

\* ToQuaternion(roll, pitch, heading): the unit quaternion of the attitude, in
\* the convention the extraction formulas of Update read back (pitch and
\* heading enter with the opposite sign of the aerospace yaw-pitch-roll order).
ToQuaternion(roll, pitch, heading) ==
  LET cr == Cos(Div(roll, 2))
      sr == Sin(Div(roll, 2))
      cp == Cos(Div(-pitch, 2))
      sp == Sin(Div(-pitch, 2))
      cy == Cos(Div(-heading, 2))
      sy == Sin(Div(-heading, 2))
  IN  << Mul(Mul(cr, cp), cy) + Mul(Mul(sr, sp), sy),
         Mul(Mul(sr, cp), cy) - Mul(Mul(cr, sp), sy),
         Mul(Mul(cr, sp), cy) + Mul(Mul(sr, cp), sy),
         Mul(Mul(cr, cp), sy) - Mul(Mul(sr, sp), cy) >>

\* QuaternionRotate(q0, q1, q2, q3, r1, r2, r3): q composed with the small
\* rotation (r1, r2, r3), to first order: q + q*(0, r)/2.
QuaternionRotate(q0, q1, q2, q3, r1, r2, r3) ==
  << q0 - Div(q1 * r1 + q2 * r2 + q3 * r3, 2 * Milli),
     q1 + Div(q0 * r1 + q2 * r3 - q3 * r2, 2 * Milli),
     q2 + Div(q0 * r2 - q1 * r3 + q3 * r1, 2 * Milli),
     q3 + Div(q0 * r3 + q1 * r2 - q2 * r1, 2 * Milli) >>

\* The angle b*Deg*dt of a rate b (milli-degrees a second) over dt ticks.
RateAngle(b, dt) ==
  Div(Div(b * Deg, Milli) * Div(dt, TicksPerMs), Milli * Milli)

\* --------------------------------------------------------- SimpleState

\* new(SimpleState): every field zero.
NewState ==
  [ T |-> 0, E0 |-> 0, E1 |-> 0, E2 |-> 0, E3 |-> 0,
    rollGPS |-> 0, pitchGPS |-> 0, headingGPS |-> 0,
    roll |-> 0, pitch |-> 0, heading |-> 0,
    w1 |-> 0, w2 |-> 0, w3 |-> 0, gs |-> 0, tr |-> 0 ]

\* initVelocity without the else branch of lines 39-44: an invalid velocity
\* leaves the last velocity as it was.
initVelocityKeepsLast(s0, m) ==
  IF m.WValid
  THEN [s0 EXCEPT !.T = m.T, !.gs = Hypot(m.W1, m.W2),
                  !.w1 = m.W1, !.w2 = m.W2, !.w3 = m.W3]
  ELSE [s0 EXCEPT !.T = m.T, !.gs = 0]

\* init, lines 33-44: the time stamp, the groundspeed and the last velocity.
initVelocity(s0, m) ==
  IF m.WValid
  THEN [s0 EXCEPT !.T = m.T, !.gs = Hypot(m.W1, m.W2),
                  !.w1 = m.W1, !.w2 = m.W2, !.w3 = m.W3]
  ELSE [s0 EXCEPT !.T = m.T, !.gs = 0, !.w1 = 0, !.w2 = 0, !.w3 = 0]

\* HeadingFromVelocity with the arguments of Atan2 exchanged.
HeadingFromVelocitySwapped(m) == Atan2(m.W2, m.W1)

\* Lines 49 and 90: the GPS heading, math.Atan2(m.W1, m.W2).
HeadingFromVelocity(m) == Atan2(m.W1, m.W2)

\* initGPS with the groundspeed compared by >= at line 48.
initGPSInclusive(s0, m) ==
  IF s0.gs >= MinGS
  THEN [s0 EXCEPT !.tr = 0, !.rollGPS = 0,
                  !.headingGPS = HeadingFromVelocity(m),
                  !.pitchGPS = Atan2(m.W3, s0.gs)]
  ELSE [s0 EXCEPT !.tr = 0, !.rollGPS = 0,
                  !.headingGPS = Pi \div 2, !.pitchGPS = 0]

\* init, lines 46-54: the turn rate and the GPS attitude.
initGPS(s0, m) ==
  IF s0.gs > MinGS
  THEN [s0 EXCEPT !.tr = 0, !.rollGPS = 0,
                  !.headingGPS = HeadingFromVelocity(m),
                  !.pitchGPS = Atan2(m.W3, s0.gs)]
  ELSE [s0 EXCEPT !.tr = 0, !.rollGPS = 0,
                  !.headingGPS = Pi \div 2, !.pitchGPS = 0]

\* init, lines 56-60: the fused attitude and its quaternion.
initFused(s0) ==
  LET e == ToQuaternion(s0.rollGPS, s0.pitchGPS, s0.headingGPS)
  IN  [s0 EXCEPT !.roll = s0.rollGPS, !.pitch = s0.pitchGPS,
                 !.heading = s0.headingGPS,
                 !.E0 = e[1], !.E1 = e[2], !.E2 = e[3], !.E3 = e[4]]

\* (s *SimpleState) init(m), applied to the state s0 it is called on.
init(s0, m) == initFused(initGPS(initVelocity(s0, m), m))

\* InitializeSimple(m): init on a new state.
InitializeSimple(m) == init(NewState, m)

\* Predict(t) returns at once.
Predict(s0, t) == s0

\* TooSoon that tests only for a non-positive interval.
TooSoonNonPositive(dt) == dt <= 0

\* TooSoon that tests the magnitude of the interval.
TooSoonMagnitude(dt) == Abs(dt) < MinDT

\* Update, line 74: the interval is too short to recalculate.
TooSoon(dt) == dt < MinDT

\* Update, line 77: the interval is too long, the state is stale.
TooStale(dt) == dt > MaxDT

\* Update, lines 82-84: the groundspeed follows a valid velocity only.
Groundspeed(s0, m) == IF m.WValid THEN Hypot(m.W1, m.W2) ELSE s0.gs

\* Update, line 86: the GPS velocity is used.
UseGPS(m, gs) == m.WValid /\ gs > MinGS

\* Update, line 87: the filtered turn rate.
TurnRate(s0, m, gs, dt) ==
  LET cross  == m.W2 * (m.W1 - s0.w1) - m.W1 * (m.W2 - s0.w2)
      sample == Div(cross, Div(gs * gs, Milli))
  IN  MulDiv(s0.tr, 9, 10) + MulDiv(Div(sample, 10), TicksPerSec, dt)

\* Update, lines 87-93: the GPS attitude from the velocity.
GPSFromVelocity(s0, m, gs, dt) ==
  LET tr == TurnRate(s0, m, gs, dt)
  IN  [s0 EXCEPT !.gs = gs, !.tr = tr,
                 !.rollGPS = Atan(MulDiv(tr, gs, G)),
                 !.pitchGPS = Atan2(m.W3, gs),
                 !.headingGPS = HeadingFromVelocity(m),
                 !.w1 = m.W1, !.w2 = m.W2, !.w3 = m.W3]

\* GPSHeld without lines 96-98: the GPS attitude is left as it was.
GPSHeldUnrefreshed(s0, gs) ==
  [s0 EXCEPT !.gs = gs, !.tr = 0, !.w1 = 0, !.w2 = 0, !.w3 = 0]

\* GPSHeld without lines 99-101: the last velocity is left as it was.
GPSHeldKeepsVelocity(s0, gs) ==
  [s0 EXCEPT !.gs = gs, !.tr = 0,
             !.rollGPS = s0.roll, !.pitchGPS = s0.pitch,
             !.headingGPS = s0.heading]

\* Update, lines 95-101: the GPS attitude held at the fused attitude.
GPSHeld(s0, gs) ==
  [s0 EXCEPT !.gs = gs, !.tr = 0,
             !.rollGPS = s0.roll, !.pitchGPS = s0.pitch,
             !.headingGPS = s0.heading,
             !.w1 = 0, !.w2 = 0, !.w3 = 0]

\* Update, lines 82-102.
RefreshGPS(s0, m, dt) ==
  LET gs == Groundspeed(s0, m)
  IN  IF UseGPS(m, gs) THEN GPSFromVelocity(s0, m, gs, dt) ELSE GPSHeld(s0, gs)

\* Update, lines 104-109: dq, the change of the quaternion under the gyro rates.
GyroDelta(s0, m, dt) ==
  LET r == QuaternionRotate(s0.E0, s0.E1, s0.E2, s0.E3,
                            RateAngle(m.B1, dt), RateAngle(m.B2, dt),
                            RateAngle(m.B3, dt))
  IN  <<r[1] - s0.E0, r[2] - s0.E1, r[3] - s0.E2, r[4] - s0.E3>>

\* Update, lines 113-117: numerator and denominator of dr.
RollTerms(q, dq) ==
  LET rx  == Div(2 * (q[1] * q[2] + q[3] * q[4]), Milli)
      ry  == Div(q[1] * q[1] - q[2] * q[2] - q[3] * q[3] - q[4] * q[4], Milli)
      drx == Div(2 * (q[2] * dq[1] + q[1] * dq[2] + q[4] * dq[3] + q[3] * dq[4]), Milli)
      dry == Div(2 * (q[1] * dq[1] - q[2] * dq[2] - q[3] * dq[3] + q[4] * dq[4]), Milli)
  IN  [num |-> ry * drx - rx * dry, den |-> rx * rx + ry * ry]

\* Update, lines 122-126: numerator and denominator of dp.
PitchTerms(q, dq) ==
  LET px  == Div(-2 * (q[1] * q[3] - q[4] * q[2]), Milli)
      py  == Div(q[1] * q[1] + q[2] * q[2] + q[3] * q[3] + q[4] * q[4], Milli)
      dpx == Div(-2 * (q[3] * dq[1] - q[4] * dq[2] + q[1] * dq[3] - q[2] * dq[4]), Milli)
      dpy == Div(2 * (q[1] * dq[1] + q[2] * dq[2] + q[3] * dq[3] + q[4] * dq[4]), Milli)
      rad == py * py - px * px
  IN  [num |-> py * dpx - px * dpy,
       den |-> IF rad > 0 THEN py * Isqrt(rad) ELSE 0]

\* Update, lines 131-135: numerator and denominator of dh.
HeadingTerms(q, dq) ==
  LET hx  == Div(-2 * (q[1] * q[4] - q[2] * q[3]), Milli)
      hy  == Div(q[1] * q[1] + q[2] * q[2] - q[3] * q[3] - q[4] * q[4], Milli)
      dhx == Div(-2 * (q[4] * dq[1] - q[3] * dq[2] - q[2] * dq[3] + q[1] * dq[4]), Milli)
      dhy == Div(2 * (q[1] * dq[1] + q[2] * dq[2] - q[3] * dq[3] - q[4] * dq[4]), Milli)
  IN  [num |-> hy * dhx - hx * dhy, den |-> hx * hx + hy * hy]

\* Damp with >= for > in the test of the product.
DampNonNegative(disc, d) ==
  IF Sgn(disc) * Sgn(d) >= 0 THEN Div(d * KNum, KDen) ELSE d

\* Damp without the test: every increment is multiplied by K.
DampAlways(disc, d) == Div(d * KNum, KDen)

\* Update, lines 141-146 and 153-155: an increment is multiplied by K when its
\* product with the discrepancy is positive.  The product is taken of the two
\* signs, which decides the same and stays within the machine range.
Damp(disc, d) == IF Sgn(disc) * Sgn(d) > 0 THEN Div(d * KNum, KDen) ELSE d

\* WrapDiff without the else-if branch of lines 150-152.
WrapDiffOneSided(d) == IF d > Pi THEN d - 2 * Pi ELSE d

\* Update, lines 147-152: the heading discrepancy brought back by one turn.
WrapDiff(d) ==
  IF d > Pi THEN d - 2 * Pi
  ELSE IF d < -Pi THEN d + 2 * Pi
  ELSE d

\* The quaternion of a state.
Quat(s0) == <<s0.E0, s0.E1, s0.E2, s0.E3>>

\* num/den as an angle in milliradians.  A vanishing denominator makes NaN or
\* Inf in the program; the model has no such value and reports the call as not
\* finite (see Outcome), the angle given here is then never used.
Quotient(t) == IF t.den = 0 THEN 0 ELSE MulDiv(t.num, Milli, t.den)

\* What one call of Update does: the new state, the branch taken, the raw
\* increments <<dr, dp, dh>> of lines 117, 126 and 135, the increments added at
\* lines 157-159, the wrapped heading discrepancy ddh of lines 147-152, and
\* whether every number computed was finite.
Outcome(st, branch, raw, inc, ddh, finite) ==
  [s |-> st, branch |-> branch, raw |-> raw, inc |-> inc, ddh |-> ddh,
   finite |-> finite]

\* Update, lines 104-165, on the state g that lines 82-102 left.
Integrate(g, m, dt, branch) ==
  LET q   == Quat(g)
      dq  == GyroDelta(g, m, dt)
      tr  == RollTerms(q, dq)
      tp  == PitchTerms(q, dq)
      th  == HeadingTerms(q, dq)
      dr  == Quotient(tr)
      dp  == Quotient(tp)
      dh  == Quotient(th)
      ddh == WrapDiff(g.heading - g.headingGPS)
      dp1 == Damp(g.pitch - g.pitchGPS, dp)
      dr1 == Damp(g.roll - g.rollGPS, dr)
      dh1 == Damp(ddh, dh)
      a   == Regularize(g.roll + dr1, g.pitch + dp1, g.heading + dh1)
      e   == ToQuaternion(a[1], a[2], a[3])
  IN  Outcome([g EXCEPT !.roll = a[1], !.pitch = a[2], !.heading = a[3],
                        !.E0 = e[1], !.E1 = e[2], !.E2 = e[3], !.E3 = e[4],
                        !.T = m.T],
              branch, <<dr, dp, dh>>, <<dr1, dp1, dh1>>, ddh,
              tr.den # 0 /\ tp.den # 0 /\ th.den # 0)

\* (s *SimpleState) Update(m).
Update(s0, m) ==
  LET dt == m.T - s0.T
  IN  IF TooSoon(dt)
      THEN Outcome(s0, "noop", <<0, 0, 0>>, <<0, 0, 0>>, 0, TRUE)
      ELSE IF TooStale(dt)
      THEN Outcome(init(s0, m), "init", <<0, 0, 0>>, <<0, 0, 0>>, 0, TRUE)
      ELSE Integrate(RefreshGPS(s0, m, dt), m, dt,
                     IF UseGPS(m, Groundspeed(s0, m)) THEN "gps" ELSE "held")

\* (s *SimpleState) Compute(m): Predict, then Update.
Compute(s0, m) == Update(Predict(s0, m.T), m)

\* CalcRollPitchHeading, CalcGPSRollPitchHeading,
\* CalcRollPitchHeadingUncertainty and Valid.
CalcRollPitchHeading(s0) == <<s0.roll, s0.pitch, s0.heading>>

CalcGPSRollPitchHeading(s0) == <<s0.rollGPS, s0.pitchGPS, s0.headingGPS>>

CalcRollPitchHeadingUncertainty(s0) == <<0, 0, 0>>

Valid(s0) == TRUE

\* ------------------------------------------------------------- the inputs

\* The longest run of Compute calls followed after InitializeSimple.
MaxSteps == 2

\* The longest run of Compute calls of the reacquisition scenario.
MaxLongSteps == 3

Second == TicksPerSec

\* The intervals m.T - s.T offered: out of order, duplicate, positive but below
\* MinDT, MinDT itself, one second, MaxDT itself, and just beyond MaxDT.
Intervals == {-Second, 0, MinDT - 1, MinDT, Second, MaxDT, MaxDT + 1}

\* Gyro rates <<B1, B2, B3>>, milli-degrees a second: none, and 2 deg/s about
\* every axis.
Gyros == {<<0, 0, 0>>, <<2000, 2000, 2000>>}

\* GPS velocities <<WValid, W1, W2, W3>>, milli-knots: invalid (its components
\* are present all the same), at rest, exactly MinGS, and three above MinGS
\* (east, north, and south climbing).
Velocities ==
  { <<FALSE, 20000, 0, 5000>>,
    <<TRUE, 0, 0, 0>>,
    <<TRUE, 6000, 8000, 0>>,
    <<TRUE, 20000, 0, 0>>,
    <<TRUE, 0, 20000, 0>>,
    <<TRUE, 0, -20000, 5000>> }

Measurement(t, b, v) ==
  [T |-> t, B1 |-> b[1], B2 |-> b[2], B3 |-> b[3],
   WValid |-> v[1], W1 |-> v[2], W2 |-> v[3], W3 |-> v[4]]

\* The measurements a caller may feed next to a state whose time is t.
Measurements(t) ==
  {Measurement(t + d, b, v) : d \in Intervals, b \in Gyros, v \in Velocities}

\* The measurements of the reacquisition scenario: no rotation, four velocities.
LongMeasurements(t) ==
  {Measurement(t + d, <<0, 0, 0>>, v) :
     d \in {0, Second, MaxDT + 1},
     v \in {<<FALSE, 20000, 0, 5000>>, <<TRUE, 6000, 8000, 0>>,
            <<TRUE, 20000, 0, 0>>, <<TRUE, 0, 20000, 0>>}}

\* ------------------------------------------------------- the state machine

\* s: the SimpleState.  call: the last call made, with the state it found (pre)
\* and what Update did.  hist: the branches of the calls that changed the state,
\* oldest first.  steps: the Compute calls made.
VARIABLES s, call, hist, steps

vars == <<s, call, hist, steps>>

Construct(m) ==
  /\ s = InitializeSimple(m)
  /\ call = [op |-> "InitializeSimple", m |-> m, pre |-> NewState,
             out |-> Outcome(InitializeSimple(m), "init",
                             <<0, 0, 0>>, <<0, 0, 0>>, 0, TRUE)]
  /\ hist = <<"init">>
  /\ steps = 0

Feed(m) ==
  /\ \E out \in {Compute(s, m)} :
         /\ out.finite
         /\ s' = out.s
         /\ call' = [op |-> "Compute", m |-> m, pre |-> s, out |-> out]
         /\ hist' = IF out.branch = "noop" THEN hist
                    ELSE Append(hist, out.branch)
  /\ steps' = steps + 1

Init == \E m \in Measurements(0) : m.T = 0 /\ m.B1 = 0 /\ Construct(m)

Next == steps < MaxSteps /\ \E m \in Measurements(s.T) : Feed(m)

Spec == Init /\ [][Next]_vars

InitLong == \E m \in LongMeasurements(0) : m.T = 0 /\ Construct(m)

NextLong == steps < MaxLongSteps /\ \E m \in LongMeasurements(s.T) : Feed(m)

SpecLong == InitLong /\ [][NextLong]_vars
\* ------------------------------------------------------------ the claims

\* The interval m.T - s.T of the last call.
LastDT == call.m.T - call.pre.T

\* The last call was Compute and returned at line 75.
Early == call.op = "Compute" /\ LastDT < MinDT

\* The last call was Compute and re-initialized at line 78.
Stale == call.op = "Compute" /\ LastDT > MaxDT

\* The last call was Compute and passed the time gate.
Gated == call.op = "Compute" /\ LastDT >= MinDT /\ LastDT <= MaxDT

\* The measurement's velocity is invalid or its groundspeed is at most MinGS.
Unusable(m) == ~m.WValid \/ Hypot(m.W1, m.W2) <= MinGS

\* The increment the damping rule lets through: K times the raw increment when
\* the discrepancy and the raw increment are both positive or both negative.
Damped(disc, raw) ==
  IF (disc > 0 /\ raw > 0) \/ (disc < 0 /\ raw < 0)
  THEN Div(raw * KNum, KDen)
  ELSE raw

\* C1: a Compute whose measurement comes less than MinDT after the state's time
\* (duplicate and out-of-order time stamps included) leaves every field of the
\* state, and with it every accessor's output, as it was.
C1_NoOpGate ==
  Early =>
    /\ s = call.pre
    /\ CalcRollPitchHeading(s) = CalcRollPitchHeading(call.pre)
    /\ CalcGPSRollPitchHeading(s) = CalcGPSRollPitchHeading(call.pre)

\* A positive interval below MinDT, met by a state that an update had moved.
C1_Witness ==
  /\ Early
  /\ LastDT > 0
  /\ Len(hist) >= 2
  /\ call.pre.heading # call.pre.headingGPS

\* C2: a Compute whose measurement comes more than MaxDT after the state's time
\* leaves exactly the state InitializeSimple makes of that measurement.
C2_Reinitialization == Stale => s = InitializeSimple(call.m)

\* A re-initialization, from an invalid velocity, of a state that held a turn
\* rate, a last velocity and a fused attitude away from its GPS attitude.
C2_Witness ==
  /\ Stale
  /\ ~call.m.WValid
  /\ call.pre.tr # 0
  /\ call.pre.w1 # 0
  /\ call.pre.heading # call.pre.headingGPS
  /\ call.pre.rollGPS # 0

\* C3: a gated Update whose velocity is invalid or not above MinGS stores as GPS
\* roll, pitch and heading the fused roll, pitch and heading it found.
C3_LowSpeedHold ==
  (Gated /\ Unusable(call.m)) =>
    /\ s.rollGPS = call.pre.roll
    /\ s.pitchGPS = call.pre.pitch
    /\ s.headingGPS = call.pre.heading

\* A valid velocity of exactly MinGS, with every fused angle moved by the call
\* and a GPS heading that differed from the fused one before it.
C3_Witness ==
  /\ Gated
  /\ call.m.WValid
  /\ Hypot(call.m.W1, call.m.W2) = MinGS
  /\ s.roll # call.pre.roll
  /\ s.pitch # call.pre.pitch
  /\ s.heading # call.pre.heading
  /\ call.pre.headingGPS # call.pre.heading

\* C4: in a gated Update each of roll, pitch and heading is advanced by K times
\* its raw increment when the discrepancy (fused minus the refreshed GPS value,
\* wrapped for heading) times the raw increment is positive, and by the raw
\* increment otherwise; the three channels are decided independently.
C4_Damping ==
  Gated =>
    LET raw == call.out.raw
        inc == call.out.inc
        a   == Regularize(call.pre.roll + inc[1], call.pre.pitch + inc[2],
                          call.pre.heading + inc[3])
    IN  /\ inc[1] = Damped(call.pre.roll - s.rollGPS, raw[1])
        /\ inc[2] = Damped(call.pre.pitch - s.pitchGPS, raw[2])
        /\ inc[3] = Damped(call.out.ddh, raw[3])
        /\ <<s.roll, s.pitch, s.heading>> = a

\* One channel is damped while another, with a raw increment and a discrepancy
\* of opposite signs, is not.
C4_Witness ==
  /\ Gated
  /\ \E i, j \in 1..3 :
       /\ call.out.inc[i] # call.out.raw[i]
       /\ call.out.inc[j] = call.out.raw[j]
       /\ Abs(call.out.raw[j]) >= 10
  /\ call.out.inc[1] # call.out.raw[1]
  /\ (call.pre.pitch - s.pitchGPS) * call.out.raw[2] < 0

\* The fused and the GPS heading of the last gated Update lie in (-Pi, Pi].
HeadingsInRange ==
  /\ -Pi < call.pre.heading /\ call.pre.heading <= Pi
  /\ -Pi < s.headingGPS /\ s.headingGPS <= Pi

\* C5 as stated: the heading discrepancy is heading - headingGPS brought into
\* (-Pi, Pi], congruent to the difference modulo 2*Pi.
C5_AsStated ==
  (Gated /\ HeadingsInRange) =>
    /\ (call.out.ddh - (call.pre.heading - s.headingGPS)) % (2 * Pi) = 0
    /\ -Pi < call.out.ddh
    /\ call.out.ddh <= Pi

\* C5 amended: the heading discrepancy is heading - headingGPS brought into the
\* closed interval [-Pi, Pi], congruent to the difference modulo 2*Pi; a
\* difference of exactly -Pi stays -Pi.
C5_HeadingWrap ==
  (Gated /\ HeadingsInRange) =>
    LET d == call.pre.heading - s.headingGPS
    IN  /\ (call.out.ddh - d) % (2 * Pi) = 0
        /\ -Pi <= call.out.ddh
        /\ call.out.ddh <= Pi
        /\ (d = -Pi => call.out.ddh = -Pi)

\* A difference beyond half a turn, which the wrap brings back.
C5_Witness ==
  /\ Gated
  /\ HeadingsInRange
  /\ Abs(call.pre.heading - s.headingGPS) > Pi
  /\ call.out.ddh # call.pre.heading - s.headingGPS

\* The scenario of C6: a state at rest, level and heading north, is fed one
\* second later a measurement with no rotation and a valid velocity due east.
C6_Scenario ==
  /\ call.op = "Compute"
  /\ call.pre.gs = 0
  /\ call.pre.roll = 0 /\ call.pre.pitch = 0 /\ call.pre.heading = 0
  /\ LastDT = Second
  /\ call.m.B1 = 0 /\ call.m.B2 = 0 /\ call.m.B3 = 0
  /\ call.m.WValid
  /\ call.m.W1 = 20000 /\ call.m.W2 = 0 /\ call.m.W3 = 0

\* C6 as stated: the scenario leaves headingGPS = Pi/2 and a fused heading
\* strictly between 0 and Pi/2.
C6_AsStated ==
  C6_Scenario =>
    /\ s.headingGPS = Pi \div 2
    /\ 0 < s.heading
    /\ s.heading < Pi \div 2

\* C6 amended: the scenario leaves headingGPS = Pi/2 and the fused heading at
\* exactly 0: with no rotation every increment is zero, and nothing else moves
\* the fused attitude.
C6_EndToEnd ==
  C6_Scenario =>
    /\ s.headingGPS = Pi \div 2
    /\ s.heading = 0
    /\ call.out.inc = <<0, 0, 0>>

\* The scenario has happened.
C6_Witness == C6_Scenario /\ s.gs = 20000

\* C7: a Compute never moves the state's time back; the time becomes m.T when
\* m.T is at least MinDT past it (update or re-initialization) and stays
\* otherwise.
C7_TimeMonotone ==
  call.op = "Compute" =>
    /\ s.T >= call.pre.T
    /\ s.T = IF LastDT >= MinDT THEN call.m.T ELSE call.pre.T

\* An out-of-order measurement, fed after the time had advanced.
C7_Witness ==
  /\ call.op = "Compute"
  /\ LastDT < 0
  /\ call.pre.T > 0
  /\ s.T = call.pre.T

\* C8: after an initialization (InitializeSimple, or Update beyond MaxDT) the
\* fused attitude is the GPS attitude, rollGPS and the turn rate are 0, and the
\* GPS heading and pitch are Pi/2 and 0 for an unusable velocity, and
\* atan2(W1, W2) and atan2(W3, groundspeed) for a usable one.
C8_Initialization ==
  (call.op = "InitializeSimple" \/ Stale) =>
    /\ <<s.roll, s.pitch, s.heading>> = <<s.rollGPS, s.pitchGPS, s.headingGPS>>
    /\ s.rollGPS = 0
    /\ s.tr = 0
    /\ Unusable(call.m) => (s.headingGPS = Pi \div 2 /\ s.pitchGPS = 0)
    /\ ~Unusable(call.m) =>
         /\ s.headingGPS = Atan2(call.m.W1, call.m.W2)
         /\ s.pitchGPS = Atan2(call.m.W3, Hypot(call.m.W1, call.m.W2))

\* A re-initialization from a valid velocity of exactly MinGS, of a state that
\* was turning.
C8_Witness ==
  /\ Stale
  /\ call.m.WValid
  /\ Hypot(call.m.W1, call.m.W2) = MinGS
  /\ call.pre.tr # 0
  /\ call.pre.heading # Pi \div 2

\* C9: a gated Update with an unusable velocity damps nothing: every
\* discrepancy is zero and the fused roll, pitch and heading are advanced by
\* the raw increments.
C9_GyroOnly ==
  (Gated /\ Unusable(call.m)) =>
    LET raw == call.out.raw
    IN  /\ call.out.inc = raw
        /\ call.pre.roll - s.rollGPS = 0
        /\ call.pre.pitch - s.pitchGPS = 0
        /\ call.out.ddh = 0
        /\ <<s.roll, s.pitch, s.heading>> =
             Regularize(call.pre.roll + raw[1], call.pre.pitch + raw[2],
                        call.pre.heading + raw[3])

\* The second of two such updates in a row, with rotation about every axis.
C9_Witness ==
  /\ Gated
  /\ Unusable(call.m)
  /\ hist = <<"init", "held", "held">>
  /\ \A i \in 1..3 : Abs(call.out.raw[i]) >= 10

\* The last call was a gated Update with a valid velocity above MinGS.
GatedUsable == Gated /\ ~Unusable(call.m)

\* The branches of the state-changing calls before the last one.
Before == SubSeq(hist, 1, Len(hist) - 1)

IsGatedBranch(b) == b \in {"held", "gps"}

\* The branch of the last gated Update before the last call ("none" if none).
LastGatedBefore ==
  LET g == SelectSeq(Before, IsGatedBranch)
  IN  IF Len(g) = 0 THEN "none" ELSE g[Len(g)]

\* C10 as stated: when the gated Update before a gated Update with usable GPS
\* had unusable GPS, the turn rate and rollGPS come out 0.
C10_AsStated ==
  (GatedUsable /\ LastGatedBefore = "held") => (s.tr = 0 /\ s.rollGPS = 0)

\* C10 amended: when the call that last changed the state before a gated Update
\* with usable GPS was a gated Update with unusable GPS (no re-initialization
\* in between), the turn rate and rollGPS come out 0.
C10_Reacquisition ==
  (GatedUsable /\ Before[Len(Before)] = "held") => (s.tr = 0 /\ s.rollGPS = 0)

\* GPS lost and found again on another course: usable, unusable, usable.
C10_Witness ==
  /\ GatedUsable
  /\ hist = <<"init", "gps", "held", "gps">>
  /\ call.m.W1 # 0
====
